---- MODULE Spec2Model ----
(***************************************************************************)
(* Model of the constraint-propagation Sudoku solver of src/solver.py:     *)
(* SudokuTile (value + candidate set) and SudokuSolver (commit,            *)
(* remove_possible, refresh_possible, solve_count, validate, solve).       *)
(*                                                                         *)
(* The board is a sequence of rows of tile records, as in the source. Every*)
(* public method of the solver is one action; solve() is split at its loop *)
(* head (SolveBegin / SolvePass / SolveEnd) so that its passes are visible *)
(* as steps.  A Python exception leaves the board as mutated so far and is *)
(* recorded in last.exc; a caller that catches it can go on calling.       *)
(***************************************************************************)
EXTENDS Integers, Sequences, FiniteSets, TLC

VARIABLES
    N,        \* self.N: the box dimension; the board is N^2 x N^2
    board,    \* self.__board: the list of rows, each a list of tiles [value, possible]
    pc,       \* "idle" or "solve" (inside the while loop of solve())
    prev,     \* solve(): local prev
    solved,   \* solve(): local solved
    removed,  \* solve(): local removed
    passes,   \* number of solve_step calls of the running/last solve()
    calls,    \* number of commit / remove_possible calls issued by the caller
    last      \* the last operation: its name, arguments, result, exception

vars == <<N, board, pc, prev, solved, removed, passes, calls, last>>

----------------------------------------------------------------------------
(* Bounds of the model *)

\* how many commit / remove_possible calls the caller issues
MaxCalls == 2

\* how many calls the caller issues when it stays on the first row
MaxRowCalls == 3

\* how many calls the caller issues before it runs solve()
MaxSolveCalls == 3

\* how many commits the caller issues before it looks tiles up
MaxLookupCalls == 1

\* how many eliminations the caller issues around the first box
MaxPointCalls == 7

\* how many givens the caller commits before it runs refresh_possible
MaxGivens == 3

\* the box dimensions the puzzles are loaded with
Sizes == {1, 2}

----------------------------------------------------------------------------
(* Constants of solver.py *)

EMPTY == 0
OK == 0
SAME_VALUE == -1
NONE_REMOVED == -2

----------------------------------------------------------------------------
(* Geometry *)

Side == N * N
Lines == 0 .. (Side - 1)
Values == 1 .. Side
Cells == Lines \X Lines

\* box_indices with the column origin taken from the row (c0 = (row // N) * N)
box_indices_RowTwice(row, col) ==
    LET r0 == (row \div N) * N
        c0 == (row \div N) * N
    IN  [k \in 1 .. (N * N) |-> <<r0 + ((k - 1) \div N), c0 + ((k - 1) % N)>>]

\* box_indices without the scaling of the origin (r0 = row // N, c0 = col // N)
box_indices_NoScale(row, col) ==
    LET r0 == row \div N
        c0 == col \div N
    IN  [k \in 1 .. (N * N) |-> <<r0 + ((k - 1) \div N), c0 + ((k - 1) % N)>>]

\* box_indices(row, col): the cells of the box of (row, col), row-major
box_indices(row, col) ==
    LET r0 == (row \div N) * N
        c0 == (col \div N) * N
    IN  [k \in 1 .. (N * N) |-> <<r0 + ((k - 1) \div N), c0 + ((k - 1) % N)>>]

Range(seq) == {seq[k] : k \in 1 .. Len(seq)}

\* get_tile(row, col) on board b: b[row][col] (sequences count from 1)
get_tile(b, row, col) == b[row + 1][col + 1]

\* board b with the tile at (row, col) replaced
\* a Python list subscript seq[i]: the index counted from 0, a negative index
\* counted from the end, anything else an IndexError; returns the 0-based
\* position that is read
PyIndex(seq, i) ==
    IF 0 <= i /\ i < Len(seq) THEN [at |-> i, exc |-> "none"]
    ELSE IF i < 0 /\ 0 - Len(seq) <= i THEN [at |-> Len(seq) + i, exc |-> "none"]
    ELSE [at |-> 0, exc |-> "IndexError"]

Put(b, row, col, t) == [b EXCEPT ![row + 1][col + 1] = t]

----------------------------------------------------------------------------
(* SudokuTile *)

\* SudokuTile.__init__: value EMPTY, reset_possible() gives the full range
NewTile == [value |-> EMPTY, possible |-> Values]

\* set() without "self.__possible = set([value])": the candidates are kept
TileSet_KeepsCandidates(t, value) ==
    [tile |-> [value |-> value, possible |-> t.possible],
     changed |-> (value # t.value)]

\* SudokuTile.set: returns the tile and whether the value changed
TileSet(t, value) ==
    [tile |-> [value |-> value, possible |-> {value}],
     changed |-> (value # t.value)]

\* resolve() settling one element too early (len(possible) <= 2)
TileResolve_TooEarly(t) ==
    IF t.value # EMPTY THEN t
    ELSE IF Cardinality(t.possible) \in {1, 2}
         THEN TileSet(t, CHOOSE x \in t.possible : \A y \in t.possible : x <= y).tile
         ELSE t

\* SudokuTile.resolve: a single candidate of an unresolved tile becomes its value
TileResolve(t) ==
    IF t.value # EMPTY THEN t
    ELSE IF Cardinality(t.possible) = 1
         THEN TileSet(t, CHOOSE x \in t.possible : TRUE).tile
         ELSE t

\* remove_possible putting back a value that is not among the candidates
TileRemovePossible_Toggles(t, value) ==
    IF value = t.value THEN [tile |-> t, stat |-> SAME_VALUE]
    ELSE IF value \in t.possible
         THEN [tile |-> TileResolve([t EXCEPT !.possible = @ \ {value}]), stat |-> OK]
         ELSE [tile |-> [t EXCEPT !.possible = @ \cup {value}], stat |-> NONE_REMOVED]

\* remove_possible without the "value == self.__value" test
TileRemovePossible_NoSameCheck(t, value) ==
    IF value \in t.possible
    THEN [tile |-> TileResolve([t EXCEPT !.possible = @ \ {value}]), stat |-> OK]
    ELSE [tile |-> t, stat |-> NONE_REMOVED]

\* remove_possible testing "value == self.__value" only after the removal
TileRemovePossible_ChecksLate(t, value) ==
    IF value \in t.possible
    THEN [tile |-> TileResolve([t EXCEPT !.possible = @ \ {value}]),
          stat |-> IF value = t.value THEN SAME_VALUE ELSE OK]
    ELSE [tile |-> t, stat |-> NONE_REMOVED]

\* SudokuTile.remove_possible
TileRemovePossible(t, value) ==
    IF value = t.value THEN [tile |-> t, stat |-> SAME_VALUE]
    ELSE IF value \in t.possible
         THEN [tile |-> TileResolve([t EXCEPT !.possible = @ \ {value}]),
               stat |-> OK]
         ELSE [tile |-> t, stat |-> NONE_REMOVED]

----------------------------------------------------------------------------
(* SudokuSolver: a computation state is [board, n, exc]: the board, the   *)
(* running count, and the exception raised ("none" while running).        *)

Start(b) == [board |-> b, n |-> 0, exc |-> "none"]

\* remove_possible without the SAME_VALUE check: the contradiction is swallowed
RemovePossible_Swallows(s, row, col, val) ==
    IF s.exc # "none" THEN s
    ELSE LET res == TileRemovePossible(get_tile(s.board, row, col), val)
         IN  [s EXCEPT !.board = Put(s.board, row, col, res.tile),
                       !.n = @ + (IF res.stat = OK THEN 1 ELSE 0)]

\* remove_possible returning "stat != SAME_VALUE": an absent value counts too
RemovePossible_CountsAbsent(s, row, col, val) ==
    IF s.exc # "none" THEN s
    ELSE LET res == TileRemovePossible(get_tile(s.board, row, col), val)
         IN  IF res.stat = SAME_VALUE
             THEN [s EXCEPT !.exc = "RuntimeError"]
             ELSE [s EXCEPT !.board = Put(s.board, row, col, res.tile),
                            !.n = @ + 1]

\* SudokuSolver.remove_possible, adding its boolean result to s.n; the tile is
\* an object of the board, so what the tile method did to it stays when it raises
RemovePossible(s, row, col, val) ==
    IF s.exc # "none" THEN s
    ELSE LET res == TileRemovePossible(get_tile(s.board, row, col), val)
         IN  IF res.stat = SAME_VALUE
             THEN [s EXCEPT !.board = Put(s.board, row, col, res.tile),
                            !.exc = "RuntimeError"]
             ELSE [s EXCEPT !.board = Put(s.board, row, col, res.tile),
                            !.n = @ + (IF res.stat = OK THEN 1 ELSE 0)]

\* remove_possible over a list of cells, in order, stopping at an exception
RECURSIVE RemoveAll(_, _, _)
RemoveAll(s, cells, val) ==
    IF cells = <<>> \/ s.exc # "none" THEN s
    ELSE RemoveAll(RemovePossible(s, Head(cells)[1], Head(cells)[2], val),
                   Tail(cells), val)

\* the cells commit() visits along the row and the column, in its order
RECURSIVE LineTargets(_, _, _)
LineTargets(row, col, x) ==
    IF x >= Side THEN <<>>
    ELSE (IF x # col THEN <<(<<row, x>>)>> ELSE <<>>)
         \o (IF x # row THEN <<(<<x, col>>)>> ELSE <<>>)
         \o LineTargets(row, col, x + 1)

\* the cells commit() visits in the box
BoxTargets(row, col) ==
    SelectSeq(box_indices(row, col), LAMBDA rc : rc # <<row, col>>)

\* commit counting the placement as well (n = 1 where the source has n = 0)
Commit_CountsPlacement(b, row, col, val) ==
    LET tile == TileResolve(TileSet(get_tile(b, row, col), val).tile)
        s0 == [Start(Put(b, row, col, tile)) EXCEPT !.n = 1]
        s1 == RemoveAll(s0, LineTargets(row, col, 0), val)
    IN  RemoveAll(s1, BoxTargets(row, col), val)

\* SudokuSolver.commit on board b: returns [board, n, exc]
Commit(b, row, col, val) ==
    LET tile == TileResolve(TileSet(get_tile(b, row, col), val).tile)
        s0 == Start(Put(b, row, col, tile))
        s1 == RemoveAll(s0, LineTargets(row, col, 0), val)
    IN  RemoveAll(s1, BoxTargets(row, col), val)

\* adds the result of a commit() to the running computation: n += commit(...)
Add(s, cres) ==
    [board |-> cres.board, n |-> s.n + cres.n, exc |-> cres.exc]

\* "if self.get_tile(r, c).resolve() == EMPTY: n += self.commit(r, c, val)"
CommitIfEmpty(s, row, col, val) ==
    IF s.exc # "none" THEN s
    ELSE LET t == TileResolve(get_tile(s.board, row, col))
             b1 == Put(s.board, row, col, t)
         IN  IF t.value = EMPTY
             THEN Add(s, Commit(b1, row, col, val))
             ELSE [s EXCEPT !.board = b1]

\* the first loop committing the value at the transposed cell: commit(c, r, v)
RECURSIVE Recommit_Transposed(_, _)
Recommit_Transposed(s, k) ==
    IF k >= Side * Side \/ s.exc # "none" THEN s
    ELSE LET r == k \div Side
             c == k % Side
             t == TileResolve(get_tile(s.board, r, c))
             b1 == Put(s.board, r, c, t)
         IN  Recommit_Transposed(IF t.value # EMPTY
                                 THEN Add(s, Commit(b1, c, r, t.value))
                                 ELSE [s EXCEPT !.board = b1],
                                 k + 1)

\* refresh_possible without its first loop: no resolved value is committed again
Recommit_Skipped(s, k) == s

\* refresh_possible, first loop over self.indices (row-major; k counts the cells):
\* "v = resolve(); if v != EMPTY: n += commit(r, c, v)"
RECURSIVE Recommit(_, _)
Recommit(s, k) ==
    IF k >= Side * Side \/ s.exc # "none" THEN s
    ELSE LET r == k \div Side
             c == k % Side
             t == TileResolve(get_tile(s.board, r, c))
             b1 == Put(s.board, r, c, t)
         IN  Recommit(IF t.value # EMPTY
                      THEN Add(s, Commit(b1, r, c, t.value))
                      ELSE [s EXCEPT !.board = b1],
                      k + 1)

\* the first loop cell by cell: the computation states before the k-th cell of
\* self.indices, after it, and so on to the end of the loop or the exception
RECURSIVE RecommitTrace(_, _)
RecommitTrace(s, k) ==
    IF k >= Side * Side \/ s.exc # "none" THEN <<s>>
    ELSE LET r == k \div Side
             c == k % Side
             t == TileResolve(get_tile(s.board, r, c))
             b1 == Put(s.board, r, c, t)
         IN  <<s>> \o RecommitTrace(IF t.value # EMPTY
                                    THEN Add(s, Commit(b1, r, c, t.value))
                                    ELSE [s EXCEPT !.board = b1],
                                    k + 1)

\* list(set)[0] of a set of line indices: for the small integers of a box the
\* set iterates in increasing order; [] [0] is an IndexError, decided by the caller
First(S) == CHOOSE x \in S : \A y \in S : x <= y

\* the row branch without its "(r, c) not in bids" test
RECURSIVE PointRow_WholeRow(_, _, _, _, _, _)
PointRow_WholeRow(s, cnt, r, c, val, bids) ==
    IF c >= Side \/ s.exc # "none" THEN s
    ELSE LET s1 == RemovePossible([s EXCEPT !.n = 0], r, c, val)
             cnt1 == cnt + s1.n
         IN  PointRow_WholeRow([s1 EXCEPT !.n = s.n + cnt1], cnt1, r, c + 1, val, bids)

\* the row branch: "for c in range(N*N): if (r, c) not in bids: removed += ...;
\* if removed: n += removed" (the running total is added at every iteration)
RECURSIVE PointRow(_, _, _, _, _, _)
PointRow(s, cnt, r, c, val, bids) ==
    IF c >= Side \/ s.exc # "none" THEN s
    ELSE LET s1 == IF <<r, c>> \notin Range(bids)
                   THEN RemovePossible([s EXCEPT !.n = 0], r, c, val)
                   ELSE [s EXCEPT !.n = 0]
             cnt1 == cnt + s1.n
         IN  PointRow([s1 EXCEPT !.n = s.n + cnt1], cnt1, r, c + 1, val, bids)

\* the column branch, symmetric
RECURSIVE PointCol(_, _, _, _, _, _)
PointCol(s, cnt, r, c, val, bids) ==
    IF r >= Side \/ s.exc # "none" THEN s
    ELSE LET s1 == IF <<r, c>> \notin Range(bids)
                   THEN RemovePossible([s EXCEPT !.n = 0], r, c, val)
                   ELSE [s EXCEPT !.n = 0]
             cnt1 == cnt + s1.n
         IN  PointCol([s1 EXCEPT !.n = s.n + cnt1], cnt1, r + 1, c, val, bids)

\* the box rule without its "count == 1" branch
BoxRule_NoSingle(s, br, bc, val) ==
    IF s.exc # "none" THEN s
    ELSE LET bids == box_indices(br * N, bc * N)
             occ == {cell \in Range(bids) :
                       val \in get_tile(s.board, cell[1], cell[2]).possible}
             rows == {cell[1] : cell \in occ}
             cols == {cell[2] : cell \in occ}
         IN  IF occ = {} THEN [s EXCEPT !.exc = "IndexError"]
             ELSE IF Cardinality(rows) = 1
                  THEN PointRow(s, 0, First(rows), 0, val, bids)
             ELSE IF Cardinality(cols) = 1
                  THEN PointCol(s, 0, 0, First(cols), val, bids)
             ELSE s

\* the box rule taking the row branch whenever rows[0] exists ("len(rows) >= 1")
BoxRule_PointsFirstRow(s, br, bc, val) ==
    IF s.exc # "none" THEN s
    ELSE LET bids == box_indices(br * N, bc * N)
             occ == {cell \in Range(bids) :
                       val \in get_tile(s.board, cell[1], cell[2]).possible}
             rows == {cell[1] : cell \in occ}
             cols == {cell[2] : cell \in occ}
         IN  IF occ = {} THEN [s EXCEPT !.exc = "IndexError"]
             ELSE IF Cardinality(occ) = 1
                  THEN CommitIfEmpty(s, First(rows), First(cols), val)
                  ELSE PointRow(s, 0, First(rows), 0, val, bids)

\* refresh_possible, second loop body for one box (br, bc) and one value
BoxRule(s, br, bc, val) ==
    IF s.exc # "none" THEN s
    ELSE LET bids == box_indices(br * N, bc * N)
             occ == {cell \in Range(bids) :
                       val \in get_tile(s.board, cell[1], cell[2]).possible}
             rows == {cell[1] : cell \in occ}
             cols == {cell[2] : cell \in occ}
             count == Cardinality(occ)
         IN  IF count = 0 THEN [s EXCEPT !.exc = "IndexError"]
             ELSE LET r == First(rows)
                      c == First(cols)
                  IN  IF count = 1 THEN CommitIfEmpty(s, r, c, val)
                      ELSE IF Cardinality(rows) = 1
                           THEN PointRow(s, 0, r, 0, val, bids)
                      ELSE IF Cardinality(cols) = 1
                           THEN PointCol(s, 0, 0, c, val, bids)
                      ELSE s

\* refresh_possible, second loop: for br, for bc, for val in range(1, N*N+1)
RECURSIVE BoxScan(_, _)
BoxScan(s, k) ==
    IF k >= N * N * Side \/ s.exc # "none" THEN s
    ELSE BoxScan(BoxRule(s, k \div (N * Side), (k \div Side) % N, (k % Side) + 1),
                 k + 1)

\* the second loop pair by pair: the computation states before the k-th
\* (box, value) pair, after it, and so on to the end of the loop or the exception
RECURSIVE BoxScanTrace(_, _)
BoxScanTrace(s, k) ==
    IF k >= N * N * Side \/ s.exc # "none" THEN <<s>>
    ELSE <<s>> \o BoxScanTrace(BoxRule(s, k \div (N * Side), (k \div Side) % N,
                                        (k % Side) + 1),
                               k + 1)

\* the value the third loop tests: its loop variable is b, so "val" is what the
\* second loop left behind, its last value N*N
StaleVal == Side

\* refresh_possible, third loop body for line a: both lists are built first
Lonesome(s, a, val) ==
    IF s.exc # "none" THEN s
    ELSE LET cols == {b \in Lines : val \in get_tile(s.board, a, b).possible}
             rows == {b \in Lines : val \in get_tile(s.board, b, a).possible}
             s1 == IF Cardinality(cols) = 1
                   THEN CommitIfEmpty(s, a, First(cols), val)
                   ELSE s
         IN  IF Cardinality(rows) = 1
             THEN CommitIfEmpty(s1, First(rows), a, val)
             ELSE s1

\* refresh_possible, third loop: for a in range(N*N): for b in range(1, N*N+1)
RECURSIVE LonesomeScan(_, _)
LonesomeScan(s, k) ==
    IF k >= Side * Side \/ s.exc # "none" THEN s
    ELSE LonesomeScan(Lonesome(s, k \div Side, StaleVal), k + 1)

\* SudokuSolver.refresh_possible on board b: returns [board, n, exc]
RefreshPossible(b) ==
    LonesomeScan(BoxScan(Recommit(Start(b), 0), 0), 0)

\* solve_count counting the tiles that are still unresolved
SolveCount_Unresolved(b) ==
    LET b1 == [r \in 1 .. Side |-> [c \in 1 .. Side |-> TileResolve(b[r][c])]]
    IN  [board |-> b1,
         count |-> Cardinality({cell \in Cells :
                                   get_tile(b1, cell[1], cell[2]).value = EMPTY})]

\* SudokuSolver.solve_count: resolve() every tile, count the resolved ones
SolveCount(b) ==
    LET b1 == [r \in 1 .. Side |-> [c \in 1 .. Side |-> TileResolve(b[r][c])]]
    IN  [board |-> b1,
         count |-> Cardinality({cell \in Cells :
                                   get_tile(b1, cell[1], cell[2]).value # EMPTY})]

\* SudokuSolver.solve_step: returns [board, n, exc, count]
SolveStep(b) ==
    LET s == RefreshPossible(b)
    IN  IF s.exc # "none"
        THEN [board |-> s.board, n |-> s.n, exc |-> s.exc, count |-> 0]
        ELSE LET sc == SolveCount(s.board)
             IN  [board |-> sc.board, n |-> s.n, exc |-> s.exc,
                  count |-> sc.count]

\* SudokuSolver.validate: v is the state [board, ab, ba, ret], ret = <<>> while
\* scanning; k runs over (a, b) in row-major order
RECURSIVE ValidateScan(_, _)
ValidateScan(v, k) ==
    IF k >= Side * Side THEN [v EXCEPT !.ret = <<TRUE>>]
    ELSE LET a == k \div Side
             b == k % Side
             ab0 == IF b = 0 THEN {} ELSE v.ab
             ba0 == IF b = 0 THEN {} ELSE v.ba
             t1 == TileResolve(get_tile(v.board, a, b))
             b1 == Put(v.board, a, b, t1)
         IN  IF t1.value # EMPTY /\ t1.value \in ab0
             THEN [v EXCEPT !.board = b1, !.ret = <<FALSE>>]
             ELSE LET t2 == TileResolve(get_tile(b1, b, a))
                      b2 == Put(b1, b, a, t2)
                  IN  IF t2.value # EMPTY /\ t2.value \in ba0
                      THEN [v EXCEPT !.board = b2, !.ret = <<FALSE>>]
                      ELSE ValidateScan([board |-> b2,
                                         ab |-> ab0 \cup {t1.value},
                                         ba |-> ba0 \cup {t2.value},
                                         ret |-> <<>>], k + 1)

\* validate without its column scan
Validate_RowsOnly(b) ==
    LET b1 == [r \in 1 .. Side |-> [c \in 1 .. Side |-> TileResolve(b[r][c])]]
    IN  [board |-> b1, ab |-> {}, ba |-> {},
         ret |-> <<~\E r \in Lines : \E c1 \in Lines : \E c2 \in Lines \ {c1} :
                      /\ get_tile(b1, r, c1).value # EMPTY
                      /\ get_tile(b1, r, c1).value = get_tile(b1, r, c2).value>>]

Validate(b) == ValidateScan([board |-> b, ab |-> {}, ba |-> {}, ret |-> <<>>], 0)

\* the loop condition of solve()
SolveCond(p, sv, rm) == p # sv \/ rm > 0

----------------------------------------------------------------------------
(* Actions.  A method's result is bound once, as the one element of a set. *)

Ret(s) == IF s.exc = "none" THEN <<s.n>> ELSE <<>>

Init ==
    /\ N \in Sizes
    /\ board = [r \in 1 .. Side |-> [c \in 1 .. Side |-> NewTile]]
    /\ pc = "idle"
    /\ prev = 0
    /\ solved = 0
    /\ removed = 0
    /\ passes = 0
    /\ calls = 0
    /\ last = [op |-> "load", row |-> 0, col |-> 0, val |-> 0,
               ret |-> <<>>, exc |-> "none"]


Op(name, row, col, val, ret, exc) ==
    [op |-> name, row |-> row, col |-> col, val |-> val, ret |-> ret, exc |-> exc]

Bool(x) == IF x THEN 1 ELSE 0

\* solver.commit(row, col, val)
DoCommit(row, col, val) ==
    /\ pc = "idle"
    /\ \E s \in {Commit(board, row, col, val)} :
           /\ board' = s.board
           /\ last' = Op("commit", row, col, val, Ret(s), s.exc)
    /\ calls' = calls + 1
    /\ UNCHANGED <<N, pc, prev, solved, removed, passes>>

\* solver.remove_possible(row, col, val)
DoRemovePossible(row, col, val) ==
    /\ pc = "idle"
    /\ \E s \in {RemovePossible(Start(board), row, col, val)} :
           /\ board' = s.board
           /\ last' = Op("remove_possible", row, col, val, Ret(s), s.exc)
    /\ calls' = calls + 1
    /\ UNCHANGED <<N, pc, prev, solved, removed, passes>>

\* solver.refresh_possible()
DoRefreshPossible ==
    /\ pc = "idle"
    /\ \E s \in {RefreshPossible(board)} :
           /\ board' = s.board
           /\ last' = Op("refresh_possible", 0, 0, 0, Ret(s), s.exc)
    /\ UNCHANGED <<N, pc, prev, solved, removed, passes, calls>>

\* solver.validate()
DoValidate ==
    /\ pc = "idle"
    /\ \E v \in {Validate(board)} :
           /\ board' = v.board
           /\ last' = Op("validate", 0, 0, 0, <<Bool(v.ret[1])>>, "none")
    /\ UNCHANGED <<N, pc, prev, solved, removed, passes, calls>>

\* solver.get_tile(row, col): self.__board[row][col]; the result recorded is the
\* position of the tile that is returned
DoGetTile(row, col) ==
    /\ pc = "idle"
    /\ \E r \in {PyIndex(board, row)} :
           IF r.exc # "none"
           THEN last' = Op("get_tile", row, col, 0, <<>>, r.exc)
           ELSE \E c \in {PyIndex(board[r.at + 1], col)} :
                    IF c.exc # "none"
                    THEN last' = Op("get_tile", row, col, 0, <<>>, c.exc)
                    ELSE last' = Op("get_tile", row, col, 0, <<r.at, c.at>>, "none")
    /\ UNCHANGED <<N, board, pc, prev, solved, removed, passes, calls>>

\* solver.solve(), up to the loop head: prev, solved, removed = 0, solve_count(), 0
SolveBegin ==
    /\ pc = "idle"
    /\ \E sc \in {SolveCount(board)} :
           /\ board' = sc.board
           /\ solved' = sc.count
           /\ last' = Op("solve_count", 0, 0, 0, <<sc.count>>, "none")
    /\ prev' = 0
    /\ removed' = 0
    /\ passes' = 0
    /\ pc' = "solve"
    /\ UNCHANGED <<N, calls>>

\* solver.solve(), one iteration of the loop: prev = solved; solve_step().
\* An exception ends solve(); its locals are gone then.
SolvePass ==
    /\ pc = "solve"
    /\ SolveCond(prev, solved, removed)
    /\ \E st \in {SolveStep(board)} :
           /\ board' = st.board
           /\ IF st.exc = "none"
              THEN /\ last' = Op("solve_step", 0, 0, 0, <<st.n, st.count>>, "none")
                   /\ prev' = solved
                   /\ removed' = st.n
                   /\ solved' = st.count
                   /\ passes' = passes + 1
                   /\ pc' = "solve"
              ELSE /\ last' = Op("solve", 0, 0, 0, <<>>, st.exc)
                   /\ prev' = 0
                   /\ removed' = 0
                   /\ solved' = 0
                   /\ passes' = 0
                   /\ pc' = "idle"
    /\ UNCHANGED <<N, calls>>

\* solver.solve(), after the loop: validate() and the log line
SolveEnd ==
    /\ pc = "solve"
    /\ ~SolveCond(prev, solved, removed)
    /\ \E v \in {Validate(board)} :
           /\ board' = v.board
           /\ last' = Op("solve", 0, 0, 0, <<Bool(v.ret[1])>>, "none")
    /\ pc' = "idle"
    /\ prev' = 0
    /\ solved' = 0
    /\ removed' = 0
    /\ passes' = 0
    /\ UNCHANGED <<N, calls>>

\* any cell, any value, MaxCalls calls
Next ==
    \/ /\ calls < MaxCalls
       /\ \E row \in Lines, col \in Lines, val \in Values : DoCommit(row, col, val)
    \/ /\ calls < MaxCalls
       /\ \E row \in Lines, col \in Lines, val \in Values :
              DoRemovePossible(row, col, val)
    \/ DoRefreshPossible
    \/ DoValidate
    \/ SolveBegin
    \/ SolvePass
    \/ SolveEnd

Spec == Init /\ [][Next]_vars

\* calls confined to the first row, MaxRowCalls calls
NextRow ==
    \/ /\ calls < MaxRowCalls
       /\ \E col \in Lines, val \in Values : DoCommit(0, col, val)
    \/ /\ calls < MaxRowCalls
       /\ \E col \in Lines, val \in Values : DoRemovePossible(0, col, val)
    \/ DoRefreshPossible
    \/ DoValidate
    \/ SolveBegin
    \/ SolvePass
    \/ SolveEnd

SpecRow == Init /\ [][NextRow]_vars

----------------------------------------------------------------------------
(* Vocabulary of the properties *)

TileAt(cell) == get_tile(board, cell[1], cell[2])

SameBox(x, y) == x[1] \div N = y[1] \div N /\ x[2] \div N = y[2] \div N

\* the peers of a cell: same row, same column or same box, the cell excluded
Peers(cell) ==
    {p \in Cells : p # cell /\ (p[1] = cell[1] \/ p[2] = cell[2] \/ SameBox(p, cell))}

\* the cell the last commit / remove_possible call was about
Target == <<last.row, last.col>>

\* value != 0  <=>  the candidate set is exactly {value}
TileOk(t) == (t.value # EMPTY) <=> (Cardinality(t.possible) = 1 /\ t.possible = {t.value})

\* two peers resolved to the same value
PeerClash(b) ==
    \E x \in Cells : \E y \in Peers(x) :
        /\ get_tile(b, x[1], x[2]).value # EMPTY
        /\ get_tile(b, x[1], x[2]).value = get_tile(b, y[1], y[2]).value

----------------------------------------------------------------------------
(* C1 *)

\* C1: after construction and after every operation, every tile has
\* value != 0 iff its candidate set has exactly one element and is {value}
C1_TileInvariant == \A cell \in Cells : TileOk(TileAt(cell))

\* an elimination has just left one candidate on a 4x4 board and the tile resolved
C1_Witness ==
    /\ N = 2
    /\ last.op = "remove_possible"
    /\ last.ret = <<1>>
    /\ TileAt(Target).value # EMPTY
    /\ TileAt(Target).possible = {TileAt(Target).value}

----------------------------------------------------------------------------
(* C2 *)

\* C2: whenever commit(r, c, v) returns normally, no peer of (r, c) lists v
C2_PeerConsistency ==
    (last.op = "commit" /\ last.exc = "none")
        => \A p \in Peers(Target) : last.val \notin TileAt(p).possible

\* a second call, a commit on the 4x4 board, returned after removing v from peers
C2_Witness ==
    /\ N = 2
    /\ calls = 2
    /\ last.op = "commit"
    /\ last.exc = "none"
    /\ last.ret[1] > 0

----------------------------------------------------------------------------
(* C3 *)

\* C3: a commit(r, c, v) with a peer already resolved to v raises and returns
\* no count; a refresh_possible or a pass of solve() started on a board where
\* two peers hold the same value raises as well
C3_ContradictionRaises ==
    [][/\ (/\ last'.op = "commit"
           /\ calls' = calls + 1
           /\ \E p \in Peers(<<last'.row, last'.col>>) :
                  TileAt(p).value = last'.val)
          => (last'.exc = "RuntimeError" /\ last'.ret = <<>>)
       /\ (/\ pc = "idle"
           /\ last'.op = "refresh_possible"
           /\ PeerClash(board))
          => (last'.exc = "RuntimeError" /\ last'.ret = <<>>)
       /\ (/\ pc = "solve"
           /\ SolveCond(prev, solved, removed)
           /\ PeerClash(board))
          => (last'.op = "solve" /\ last'.exc = "RuntimeError" /\ pc' = "idle")
      ]_vars

\* a commit was refused over a peer, and the refresh_possible that followed on
\* the board it left raised too
C3_Witness ==
    /\ N = 2
    /\ calls = 2
    /\ last.op = "refresh_possible"
    /\ last.exc = "RuntimeError"
    /\ PeerClash(board)

----------------------------------------------------------------------------
(* C4 *)

\* C4, on the 4x4 board: when solve() returns normally, a further
\* refresh_possible returns 0 and leaves every tile unchanged
C4_SolveStopsAtFixedPoint ==
    (N = 2 /\ last.op = "solve" /\ last.exc = "none")
        => \E s \in {RefreshPossible(board)} :
               s.exc = "none" /\ s.n = 0 /\ s.board = board

----------------------------------------------------------------------------
(* C5 *)

\* the caller edits the first row (MaxSolveCalls calls) and runs solve()
NextSolve ==
    \/ /\ calls < MaxSolveCalls
       /\ \E col \in Lines, val \in Values : DoCommit(0, col, val)
    \/ /\ calls < MaxSolveCalls
       /\ \E col \in Lines, val \in Values : DoRemovePossible(0, col, val)
    \/ SolveBegin
    \/ SolvePass
    \/ SolveEnd

\* A step of the running solve(), told by its effect on pc and passes: on the
\* steps of NextSolve this is exactly SolvePass \/ SolveEnd (a pass that returns
\* counts up and stays in the loop; a pass that raises, and SolveEnd, leave it),
\* and it is enabled exactly while pc = "solve", as SolvePass \/ SolveEnd is.
SolveRuns ==
    /\ pc = "solve"
    /\ \/ passes' = passes + 1 /\ pc' = "solve"
       \/ passes' = 0 /\ pc' = "idle"

\* solve() is a synchronous loop without suspension points: once entered it
\* keeps executing until it returns or raises
SpecSolve == Init /\ [][NextSolve]_vars /\ WF_<<pc, passes>>(SolveRuns)

\* C5: solve() eventually stops (it returns or raises); from pass to pass the
\* resolved count never decreases and never exceeds N^4, and the elimination
\* count of every pass is non-negative
C5_SolveTerminates ==
    /\ (pc = "solve") ~> (pc = "idle")
    /\ [][(pc = "solve" /\ pc' = "solve")
              => /\ solved' >= solved
                 /\ solved' <= N * N * N * N
                 /\ removed' >= 0
                 /\ last'.ret = <<removed', solved'>>]_vars
    /\ [](pc = "solve" => (solved >= 0 /\ solved <= N * N * N * N /\ removed >= 0))

\* solve() is in its second pass or later and the last pass resolved more tiles
C5_Witness ==
    /\ N = 2
    /\ pc = "solve"
    /\ passes >= 2
    /\ solved > prev
    /\ removed > 0

----------------------------------------------------------------------------
(* C6 *)

\* v is a candidate of the unresolved tile at cell and of no other tile of
\* its row, or of no other tile of its column
Lonely(b, cell, v) ==
    /\ get_tile(b, cell[1], cell[2]).value = EMPTY
    /\ v \in get_tile(b, cell[1], cell[2]).possible
    /\ \/ \A c \in Lines \ {cell[2]} : v \notin get_tile(b, cell[1], c).possible
       \/ \A r \in Lines \ {cell[1]} : v \notin get_tile(b, r, cell[2]).possible

HiddenSingles(b) == {h \in Cells \X Values : Lonely(b, h[1], h[2])}

\* C6, for a sweep that meets exactly one hidden single when its scan starts (so
\* that no other placement of the scan interferes): a refresh_possible that
\* returns has placed that value in that cell
C6_HiddenSinglePlaced ==
    [][(pc = "idle" /\ last'.op = "refresh_possible" /\ last'.exc = "none")
          => \E mid \in {BoxScan(Recommit(Start(board), 0), 0)} :
                 \A h \in HiddenSingles(mid.board) :
                     HiddenSingles(mid.board) = {h}
                         => get_tile(board', h[1][1], h[1][2]).value = h[2]
      ]_vars

----------------------------------------------------------------------------
(* C7 *)

\* two cells of one row or of one column resolved to the same value
RowColClash(b) ==
    \E x \in Cells : \E y \in Cells \ {x} :
        /\ x[1] = y[1] \/ x[2] = y[2]
        /\ get_tile(b, x[1], x[2]).value # EMPTY
        /\ get_tile(b, x[1], x[2]).value = get_tile(b, y[1], y[2]).value

\* two cells of one box, in different rows and columns, resolved to the same value
BoxOnlyClash(b) ==
    \E x \in Cells : \E y \in Cells \ {x} :
        /\ SameBox(x, y) /\ x[1] # y[1] /\ x[2] # y[2]
        /\ get_tile(b, x[1], x[2]).value # EMPTY
        /\ get_tile(b, x[1], x[2]).value = get_tile(b, y[1], y[2]).value

\* C7: validate() returns false iff two cells of a row or of a column are
\* resolved to the same value; unresolved cells and equal values that share only
\* a box do not count
C7_ValidateRowsAndColumns ==
    (last.op = "validate") => (last.ret = <<0>> <=> RowColClash(board))

\* validate() returned true on a 4x4 board whose only clash is inside a box
C7_Witness ==
    /\ N = 2
    /\ last.op = "validate"
    /\ last.ret = <<1>>
    /\ BoxOnlyClash(board)
    /\ \E cell \in Cells : TileAt(cell).value = EMPTY

----------------------------------------------------------------------------
(* C8 *)

\* the tile at cell becomes resolved in this step by a commit placing the value
\* there, or by the removal of the call's value leaving one candidate
ResolvedByCall(cell, t, u) ==
    \/ /\ last'.op = "commit"
       /\ calls' = calls + 1
       /\ cell = <<last'.row, last'.col>>
       /\ u.value = last'.val
    \/ /\ last'.op \in {"commit", "remove_possible"}
       /\ calls' = calls + 1
       /\ last'.val \in t.possible
       /\ t.possible \ {last'.val} = {u.value}
       /\ u.possible = {u.value}

\* the tile becomes resolved inside a refresh_possible, where the sweep's own
\* commits and eliminations settle it on one of its candidates
ResolvedBySweep(t, u) ==
    /\ last'.op \in {"refresh_possible", "solve_step", "solve"}
    /\ calls' = calls
    /\ u.value \in t.possible
    /\ u.possible = {u.value}

\* the tile, created unresolved with its one candidate on the 1x1 board, is
\* settled by the resolve() of a validate() or solve_count() that reads it
ResolvedOnRead(t, u) ==
    /\ N = 1
    /\ last'.op \in {"validate", "solve_count"}
    /\ calls' = calls
    /\ t.possible = {u.value}
    /\ u.possible = {u.value}

----------------------------------------------------------------------------
(* C9 *)

\* C9: in every step every tile's candidate set is a subset of what it was;
\* the one exception is the tile a commit call places its value in (set(), not
\* an eliminate call)
C9_CandidatesShrink ==
    [][\A cell \in Cells :
          \/ get_tile(board', cell[1], cell[2]).possible \subseteq TileAt(cell).possible
          \/ /\ last'.op = "commit"
             /\ calls' = calls + 1
             /\ cell = <<last'.row, last'.col>>
      ]_vars

\* a direct elimination has taken a second candidate from a tile of a 4x4 board
C9_Witness ==
    /\ N = 2
    /\ last.op = "remove_possible"
    /\ last.ret = <<1>>
    /\ TileAt(Target).value = EMPTY
    /\ Cardinality(TileAt(Target).possible) = 2

----------------------------------------------------------------------------
(* C10 *)

\* the seven peers of (0, 0) on the 4x4 board
PeersOfOrigin == {<<0, 1>>, <<0, 2>>, <<0, 3>>, <<1, 0>>, <<2, 0>>, <<3, 0>>, <<1, 1>>}

\* C10: commit(r, c, v) changes the candidate set of a peer of (r, c) only by
\* removing v, and leaves the tiles of all other cells but (r, c) as they were;
\* commit(0, 0, 1) on the blank 4x4 board removes 1 from exactly the seven peers
C10_CommitFrame ==
    [][(last'.op = "commit" /\ calls' = calls + 1)
          => /\ \A p \in Peers(<<last'.row, last'.col>>) :
                    get_tile(board', p[1], p[2]).possible
                        \in {TileAt(p).possible, TileAt(p).possible \ {last'.val}}
             /\ \A q \in Cells \ (Peers(<<last'.row, last'.col>>)
                                     \cup {<<last'.row, last'.col>>}) :
                    get_tile(board', q[1], q[2]) = TileAt(q)
             /\ (/\ N = 2
                 /\ \A cell \in Cells : TileAt(cell) = NewTile
                 /\ last'.row = 0 /\ last'.col = 0 /\ last'.val = 1)
                => /\ {cell \in Cells :
                          /\ 1 \in TileAt(cell).possible
                          /\ 1 \notin get_tile(board', cell[1], cell[2]).possible}
                      = PeersOfOrigin
                   /\ last'.ret = <<7>>
      ]_vars

\* commit(0, 0, 1) has returned 7 as the first call on the 4x4 board
C10_Witness ==
    /\ N = 2
    /\ calls = 1
    /\ last = Op("commit", 0, 0, 1, <<7>>, "none")
    /\ \A cell \in Cells \ (PeersOfOrigin \cup {<<0, 0>>}) : TileAt(cell) = NewTile

----------------------------------------------------------------------------
(* C11 *)

\* C11: a commit(r, c, v) that returns, returns the number of peers of (r, c)
\* that listed v right before the call, each peer once
C11_CommitCount ==
    [][(last'.op = "commit" /\ calls' = calls + 1 /\ last'.exc = "none")
          => last'.ret = <<Cardinality({p \in Peers(<<last'.row, last'.col>>) :
                                           last'.val \in TileAt(p).possible})>>
      ]_vars

\* a second commit on the 4x4 board has returned a count between 1 and 6: some
\* of its peers had lost the value before, the others are counted once
C11_Witness ==
    /\ N = 2
    /\ calls = 2
    /\ last.op = "commit"
    /\ last.exc = "none"
    /\ last.ret[1] \in 1 .. 6

----------------------------------------------------------------------------
(* C12 *)

\* C12: remove_possible(r, c, v), v in [1, N^2], raises exactly when v is the
\* value the tile is resolved to; otherwise it returns True exactly when v was a
\* candidate, and v is then removed; otherwise it returns False.  When it raises
\* or returns False the tile is as it was.
C12_EliminateOutcome ==
    [][(last'.op = "remove_possible" /\ calls' = calls + 1)
          => \E t \in {TileAt(<<last'.row, last'.col>>)} :
             \E u \in {get_tile(board', last'.row, last'.col)} :
                 /\ last'.exc = "RuntimeError"
                       <=> (t.value # EMPTY /\ last'.val = t.value)
                 /\ last'.exc \in {"none", "RuntimeError"}
                 /\ last'.exc = "none"
                       => /\ last'.ret \in {<<0>>, <<1>>}
                          /\ last'.ret = <<1>> <=> last'.val \in t.possible
                          /\ last'.ret = <<1>> => u.possible = t.possible \ {last'.val}
                 /\ (last'.exc = "RuntimeError" \/ last'.ret = <<0>>) => u = t
      ]_vars

\* the last of the caller's calls, a direct elimination of a resolved tile's own
\* value, has raised; a peer is resolved as well
C12_Witness ==
    /\ N = 2
    /\ calls = MaxRowCalls
    /\ last.op = "remove_possible"
    /\ last.exc = "RuntimeError"
    /\ TileAt(Target).value = last.val
    /\ \E p \in Peers(Target) : TileAt(p).value # EMPTY

----------------------------------------------------------------------------
(* C13 *)

\* the indices the caller looks up: the lines, and as many again on either side
Probes == (0 - 2 * Side) .. (2 * Side - 1)

\* the caller commits on the first row (MaxLookupCalls calls) and looks tiles up
NextLookup ==
    \/ /\ calls < MaxLookupCalls
       /\ \E col \in Lines, val \in Values : DoCommit(0, col, val)
    \/ \E row \in Probes, col \in Probes : DoGetTile(row, col)

SpecLookup == Init /\ [][NextLookup]_vars

\* C13: get_tile(row, col) with row or col outside [0, N^2 - 1] raises and
\* returns no tile
C13_LookupBoundsChecked ==
    (last.op = "get_tile" /\ (last.row \notin Lines \/ last.col \notin Lines))
        => (last.exc # "none" /\ last.ret = <<>>)

----------------------------------------------------------------------------
(* C14 *)

\* the box and the value of the pair the second loop visits at position i of
\* its trace, and the cells of that box that list the value on board b
PairCells(i) == Range(box_indices(((i - 1) \div (N * Side)) * N,
                                  (((i - 1) \div Side) % N) * N))

PairVal(i) == ((i - 1) % Side) + 1

Occ(b, i) == {cell \in PairCells(i) : PairVal(i) \in get_tile(b, cell[1], cell[2]).possible}

\* at position i the value is listed by one cell of the box, an unresolved one
BoxSingleAt(tr, i) ==
    /\ Cardinality(Occ(tr[i].board, i)) = 1
    /\ \A cell \in Occ(tr[i].board, i) :
           get_tile(tr[i].board, cell[1], cell[2]).value = EMPTY

\* the eliminations the caller issues: the N lowest values in the first box,
\* the others in the tile right of the box in its last row
PointMoves ==
    {m \in Cells \X Values :
        \/ m[1][1] < N /\ m[1][2] < N /\ m[2] <= N
        \/ m[1] = <<N - 1, N>> /\ m[2] > N}

\* the caller eliminates candidates around the first box (MaxPointCalls calls)
\* and runs refresh_possible
NextPoint ==
    \/ /\ calls < MaxPointCalls
       /\ \E m \in PointMoves : DoRemovePossible(m[1][1], m[1][2], m[2])
    \/ DoRefreshPossible

SpecPoint == Init /\ [][NextPoint]_vars

\* after the rule at position i the cell is resolved to the value of the pair
PlacedAt(tr, i, cell) ==
    get_tile(tr[i + 1].board, cell[1], cell[2]).value = PairVal(i)

\* after the rule at position i no peer of the cell lists the value of the pair
PeersClearedAt(tr, i, cell) ==
    \A p \in Peers(cell) :
        PairVal(i) \notin get_tile(tr[i + 1].board, p[1], p[2]).possible

\* a peer of the cell is resolved to the value of the pair when the rule starts
PeerHoldsAt(tr, i, cell) ==
    \E p \in Peers(cell) : get_tile(tr[i].board, p[1], p[2]).value = PairVal(i)

\* C14 as stated: whenever the box scan of a refresh_possible on a reachable
\* board visits a box and a value that one cell of the box lists, an unresolved
\* one, the rule commits the value there: afterwards the cell is resolved to it
\* and no peer lists it
C14_BoxForcedSingleCommitted ==
    \E tr \in {BoxScanTrace(Recommit(Start(board), 0), 0)} :
        \A i \in 1 .. (Len(tr) - 1) :
            BoxSingleAt(tr, i)
                => \A cell \in Occ(tr[i].board, i) :
                       /\ tr[i + 1].exc = "none"
                       /\ PlacedAt(tr, i, cell)
                       /\ PeersClearedAt(tr, i, cell)

\* C14, amended: in that case the cell is resolved to the value, and either no
\* peer lists it afterwards, or a peer was resolved to it already and the commit
\* has raised RuntimeError
C14_BoxForcedSingle ==
    \E tr \in {BoxScanTrace(Recommit(Start(board), 0), 0)} :
        \A i \in 1 .. (Len(tr) - 1) :
            BoxSingleAt(tr, i)
                => \A cell \in Occ(tr[i].board, i) :
                       /\ PlacedAt(tr, i, cell)
                       /\ \/ tr[i + 1].exc = "none" /\ PeersClearedAt(tr, i, cell)
                          \/ tr[i + 1].exc = "RuntimeError" /\ PeerHoldsAt(tr, i, cell)
                       /\ tr[i + 1].exc = "none" <=> ~PeerHoldsAt(tr, i, cell)

\* a 4x4 board on which the box scan of refresh_possible visits a box and a
\* value listed by one unresolved cell of the box, and the commit there returns
C14_Witness ==
    /\ N = 2
    /\ \E tr \in {BoxScanTrace(Recommit(Start(board), 0), 0)} :
           \E i \in 1 .. (Len(tr) - 1) : BoxSingleAt(tr, i) /\ tr[i + 1].exc = "none"

----------------------------------------------------------------------------
(* C15 *)

OccRows(b, i) == {cell[1] : cell \in Occ(b, i)}

OccCols(b, i) == {cell[2] : cell \in Occ(b, i)}

\* after the rule at position i no cell of a row of OccRows outside the box
\* lists the value of the pair; the same for the columns of OccCols
RowClearedAt(tr, i) ==
    \A r \in OccRows(tr[i].board, i) : \A c \in Lines :
        <<r, c>> \notin PairCells(i)
            => PairVal(i) \notin get_tile(tr[i + 1].board, r, c).possible

ColClearedAt(tr, i) ==
    \A c \in OccCols(tr[i].board, i) : \A r \in Lines :
        <<r, c>> \notin PairCells(i)
            => PairVal(i) \notin get_tile(tr[i + 1].board, r, c).possible

\* a cell of a row of OccRows outside the box is resolved to the value of the
\* pair when the rule starts; the same for the columns of OccCols
RowHolderAt(tr, i) ==
    \E r \in OccRows(tr[i].board, i) : \E c \in Lines :
        /\ <<r, c>> \notin PairCells(i)
        /\ get_tile(tr[i].board, r, c).value = PairVal(i)

ColHolderAt(tr, i) ==
    \E c \in OccCols(tr[i].board, i) : \E r \in Lines :
        /\ <<r, c>> \notin PairCells(i)
        /\ get_tile(tr[i].board, r, c).value = PairVal(i)

\* the tiles of the box are the same before and after the rule at position i
BoxKeptAt(tr, i) ==
    \A cell \in PairCells(i) :
        get_tile(tr[i + 1].board, cell[1], cell[2])
            = get_tile(tr[i].board, cell[1], cell[2])

\* C15 as stated: whenever the box scan of a refresh_possible on a reachable
\* board visits a box and a value that several cells of the box list, all in
\* one row, then after the rule no cell of that row outside the box lists the
\* value; else, all in one column, no cell of that column outside the box lists
\* it; the tiles of the box are as before
C15_PointingReductionClears ==
    \E tr \in {BoxScanTrace(Recommit(Start(board), 0), 0)} :
        \A i \in 1 .. (Len(tr) - 1) :
            Cardinality(Occ(tr[i].board, i)) > 1
                => /\ tr[i + 1].exc = "none"
                   /\ Cardinality(OccRows(tr[i].board, i)) = 1 => RowClearedAt(tr, i)
                   /\ (/\ Cardinality(OccRows(tr[i].board, i)) # 1
                       /\ Cardinality(OccCols(tr[i].board, i)) = 1)
                         => ColClearedAt(tr, i)
                   /\ BoxKeptAt(tr, i)

\* C15, amended: in the row case either no cell of the row outside the box
\* lists the value afterwards, or one was resolved to it already and the rule
\* has raised RuntimeError; the same in the column case; with neither case the
\* rule returns; the tiles of the box are as before
C15_PointingReduction ==
    \E tr \in {BoxScanTrace(Recommit(Start(board), 0), 0)} :
        \A i \in 1 .. (Len(tr) - 1) :
            Cardinality(Occ(tr[i].board, i)) > 1
                => /\ BoxKeptAt(tr, i)
                   /\ Cardinality(OccRows(tr[i].board, i)) = 1
                         => \/ tr[i + 1].exc = "none" /\ RowClearedAt(tr, i)
                            \/ tr[i + 1].exc = "RuntimeError" /\ RowHolderAt(tr, i)
                   /\ (/\ Cardinality(OccRows(tr[i].board, i)) # 1
                       /\ Cardinality(OccCols(tr[i].board, i)) = 1)
                         => \/ tr[i + 1].exc = "none" /\ ColClearedAt(tr, i)
                            \/ tr[i + 1].exc = "RuntimeError" /\ ColHolderAt(tr, i)
                   /\ (/\ Cardinality(OccRows(tr[i].board, i)) # 1
                       /\ Cardinality(OccCols(tr[i].board, i)) # 1)
                         => tr[i + 1] = tr[i]

\* a 4x4 board on which the box scan of refresh_possible visits a box and a
\* value that two cells of the box list, both in one row, and the rule takes the
\* value from a cell of that row outside the box
C15_Witness ==
    /\ N = 2
    /\ \E tr \in {BoxScanTrace(Recommit(Start(board), 0), 0)} :
           \E i \in 1 .. (Len(tr) - 1) :
               /\ Cardinality(Occ(tr[i].board, i)) = 2
               /\ Cardinality(OccRows(tr[i].board, i)) = 1
               /\ tr[i + 1].exc = "none"
               /\ tr[i + 1].board # tr[i].board

----------------------------------------------------------------------------
(* C16 *)

\* the cell the first loop visits at position i of its trace, and the value
\* resolve() reads there
VisitCell(i) == <<(i - 1) \div Side, (i - 1) % Side>>

VisitValue(tr, i) ==
    TileResolve(get_tile(tr[i].board, VisitCell(i)[1], VisitCell(i)[2])).value

\* C16: a commit(r, c, v) right after a commit(r, c, v) that returned, returns
\* 0 and leaves every tile as it was; and the first loop of a refresh_possible
\* on a reachable board commits, at every cell it finds resolved, that cell's
\* own value: the cell keeps it, and when the commit returns no peer lists it
\* and the count has grown by the number of peers that did; at an unresolved
\* cell nothing is eliminated
C16_RecommitIdempotent ==
    /\ [][(/\ last.op = "commit" /\ last.exc = "none"
           /\ last'.op = "commit" /\ calls' = calls + 1
           /\ last'.row = last.row /\ last'.col = last.col /\ last'.val = last.val)
             => /\ last'.exc = "none"
                /\ last'.ret = <<0>>
                /\ board' = board
         ]_vars
    /\ [](\E tr \in {RecommitTrace(Start(board), 0)} :
             /\ tr[Len(tr)] = Recommit(Start(board), 0)
             /\ \A i \in 1 .. (Len(tr) - 1) :
                    IF VisitValue(tr, i) # EMPTY
                    THEN /\ get_tile(tr[i + 1].board, VisitCell(i)[1], VisitCell(i)[2])
                               = [value |-> VisitValue(tr, i),
                                  possible |-> {VisitValue(tr, i)}]
                         /\ tr[i + 1].exc = "none"
                               => /\ \A p \in Peers(VisitCell(i)) :
                                         VisitValue(tr, i) \notin
                                             get_tile(tr[i + 1].board, p[1], p[2]).possible
                                  /\ tr[i + 1].n = tr[i].n
                                        + Cardinality({p \in Peers(VisitCell(i)) :
                                              VisitValue(tr, i) \in
                                                  get_tile(tr[i].board, p[1], p[2]).possible})
                    ELSE /\ tr[i + 1].n = tr[i].n
                         /\ tr[i + 1].exc = "none"
                         /\ tr[i + 1].board = tr[i].board)

\* the second of two calls on the 4x4 board was a commit that returned 0 with
\* its value in place: the repetition of the first
C16_Witness ==
    /\ N = 2
    /\ calls = 2
    /\ last.op = "commit"
    /\ last.exc = "none"
    /\ last.ret = <<0>>
    /\ TileAt(Target).value = last.val
    /\ \A cell \in Cells \ {Target} : TileAt(cell).value = EMPTY

----------------------------------------------------------------------------
(* C17 *)

\* the cells the caller commits givens at: the first box and the line next to
\* it on either side
GivenCells == {cell \in Cells : cell[1] <= N /\ cell[2] <= N}

\* the caller commits givens (MaxGivens commits, each at a cell that is still
\* unresolved, each returning) and runs refresh_possible
NextGivens ==
    \/ /\ calls < MaxGivens
       /\ \E cell \in GivenCells, val \in Values :
              /\ TileAt(cell).value = EMPTY
              /\ DoCommit(cell[1], cell[2], val)
              /\ last'.exc = "none"
    \/ DoRefreshPossible

SpecGivens == Init /\ [][NextGivens]_vars

\* C17: after commits that all returned, refresh_possible returns a count or
\* raises the RuntimeError of a contradiction; rows[0] / cols[0] never fail
C17_BoxRuleIndexDefined ==
    (last.op = "refresh_possible") => (last.exc \in {"none", "RuntimeError"})

----------------------------------------------------------------------------
(* C18 *)

\* the complete 4x4 grids: every row, every column and every box holds 1..4 once
Completions4 ==
    {h : h \in
        {g \in [1 .. 4 -> Permutations(1 .. 4)] :
            /\ \A c \in 1 .. 4 : \A r1 \in 1 .. 4 : \A r2 \in 1 .. 4 :
                   r1 # r2 => g[r1][c] # g[r2][c]
            /\ \A br \in 0 .. 1 : \A bc \in 0 .. 1 :
                   {g[2 * br + 1][2 * bc + 1], g[2 * br + 1][2 * bc + 2],
                    g[2 * br + 2][2 * bc + 1], g[2 * br + 2][2 * bc + 2]} = 1 .. 4}}

\* the complete grids of the board's size
Completions == IF N = 1 THEN {<<(<<1>>)>>} ELSE Completions4

\* board b is sound for the complete grid g: every cell lists its value in g,
\* and every resolved cell holds it
Sound(g, b) ==
    \A cell \in Cells :
        /\ g[cell[1] + 1][cell[2] + 1] \in get_tile(b, cell[1], cell[2]).possible
        /\ get_tile(b, cell[1], cell[2]).value \in {EMPTY, g[cell[1] + 1][cell[2] + 1]}

\* the caller commits givens that leave the grid a completion (MaxGivens
\* commits, each at a cell that is still unresolved) and runs refresh_possible
NextSound ==
    \/ /\ calls < MaxGivens
       /\ \E G \in {{g \in Completions : Sound(g, board)}} :
              \E cell \in GivenCells :
                  /\ TileAt(cell).value = EMPTY
                  /\ \E val \in {g[cell[1] + 1][cell[2] + 1] : g \in G} :
                         DoCommit(cell[1], cell[2], val)
    \/ DoRefreshPossible

SpecSound == Init /\ [][NextSound]_vars

\* C18: the blank board is sound for every complete grid; committing a given of
\* a complete grid the board is sound for, and every refresh_possible pass,
\* leaves the board sound for that grid and raises nothing
C18_PropagationSound ==
    /\ [](calls = 0 /\ last.op = "load" => \A g \in Completions : Sound(g, board))
    /\ [][\A g \in {h \in Completions : Sound(h, board)} :
              (last'.op = "commit" => g[last'.row + 1][last'.col + 1] = last'.val)
                 => Sound(g, board') /\ last'.exc = "none"
         ]_vars

\* a refresh_possible on the 4x4 board with MaxGivens givens of a complete grid
\* has returned, with more cells resolved than were given
C18_Witness ==
    /\ N = 2
    /\ calls = MaxGivens
    /\ last.op = "refresh_possible"
    /\ last.exc = "none"
    /\ Cardinality({cell \in Cells : TileAt(cell).value # EMPTY}) > MaxGivens
    /\ \E g \in Completions : Sound(g, board)

----------------------------------------------------------------------------
(* C19 *)

\* C19: when solve() returns, no two peers are resolved to the same value, and
\* its validate() was true
C19_SolveReturnsConsistent ==
    (last.op = "solve" /\ last.exc = "none")
        => (~PeerClash(board) /\ last.ret = <<1>>)

\* solve() has returned on a 4x4 board on which two peers are resolved, so
\* that it has run at least one pass and has committed both again
C19_Witness ==
    /\ N = 2
    /\ last.op = "solve"
    /\ last.exc = "none"
    /\ \E x \in Cells : \E y \in Peers(x) :
           TileAt(x).value # EMPTY /\ TileAt(y).value # EMPTY

----------------------------------------------------------------------------
(* C20 *)

\* C20: on a board with N >= 2 no tile has an empty candidate set
C20_CandidatesNeverEmpty ==
    N >= 2 => \A cell \in Cells : TileAt(cell).possible # {}

\* the elimination of the one candidate left of a tile of the 4x4 board has
\* raised, and the candidate is still there
C20_Witness ==
    /\ N = 2
    /\ last.op = "remove_possible"
    /\ last.exc = "RuntimeError"
    /\ TileAt(Target).possible = {last.val}

----------------------------------------------------------------------------
(* C21 *)

\* every tile that is resolved on board b holds the same value on board c
ValuesKept(b, c) ==
    \A cell \in Cells :
        get_tile(b, cell[1], cell[2]).value # EMPTY
            => get_tile(c, cell[1], cell[2]).value = get_tile(b, cell[1], cell[2]).value

\* C21: a refresh_possible on a reachable board, whether it returns or raises,
\* leaves every resolved tile its value; so does every commit of its first loop,
\* which places the value the tile holds, and every rule of its box scan
C21_ResolvedValuesKept ==
    /\ \E s \in {RefreshPossible(board)} : ValuesKept(board, s.board)
    /\ \E tr \in {RecommitTrace(Start(board), 0)} :
           \A i \in 1 .. (Len(tr) - 1) :
               /\ ValuesKept(tr[i].board, tr[i + 1].board)
               /\ get_tile(tr[i + 1].board, VisitCell(i)[1], VisitCell(i)[2]).value
                      = VisitValue(tr, i)
    /\ \E tr \in {BoxScanTrace(Recommit(Start(board), 0), 0)} :
           \A i \in 1 .. (Len(tr) - 1) : ValuesKept(tr[i].board, tr[i + 1].board)

\* a 4x4 board with two resolved tiles on which refresh_possible returns with
\* more tiles resolved than before
C21_Witness ==
    /\ N = 2
    /\ Cardinality({cell \in Cells : TileAt(cell).value # EMPTY}) = 2
    /\ \E s \in {RefreshPossible(board)} :
           /\ s.exc = "none"
           /\ Cardinality({cell \in Cells :
                              get_tile(s.board, cell[1], cell[2]).value # EMPTY}) > 2

====
